---- MODULE Spec2Model ----
(***************************************************************************)
(* Model of climate_tools/climate_indices.py: the year-length gate, the    *)
(* run-length encoder, the leap-year alignment, the leap-folded day of     *)
(* year of the percentile calibrator, and the ETCCDI index functions.      *)
(*                                                                         *)
(* Every function of the module is pure.  A behaviour is one call: Init    *)
(* draws the arguments, one action per function applies it and stores what *)
(* the call returns or raises.                                             *)
(*                                                                         *)
(* Conventions.                                                            *)
(*  - A float is modelled by an integer (degrees C, mm); NaN is the value  *)
(*    np.nan, for which every comparison is false.                         *)
(*  - A Python bool is the integer 1 or 0 (True == 1), as numpy's          *)
(*    nonzero() and & read it.                                             *)
(*  - Positions are Python's 0-based positions; a TLA+ sequence holds      *)
(*    position p at index p + 1.                                           *)
(*  - A call's outcome is a record [kind, val]: kind "num" (a Python or    *)
(*    numpy scalar), "array" (a one-element numpy array holding val),      *)
(*    "nan" (np.nan) or the name of the exception raised.                  *)
(***************************************************************************)
EXTENDS Integers, Sequences, FiniteSets, TLC

VARIABLES
    kind,       \* what arr holds: "tmin", "tmax", "tmean", "prec" or "seq"
    pc,         \* "ready": arguments drawn, "done": the call has returned
    fn,         \* the function that was called, "none" before the call
    arr,        \* the daily series argument (or rle's sequence)
    thresholds, \* the threshold profile argument of number_of_cn
    optimized,  \* TRUE when the interpreter runs with -O (assert stripped)
    result,     \* outcome of an index function
    values,     \* rle: first element of the returned tuple
    lengths,    \* rle: second element of the returned tuple
    expanded,   \* fix_timeseries_for_leapyear: the returned series
    reference_period, \* calculate_percentile_threshold: (first, last year)
    row,        \* the row of date_operations built last
    args,       \* calculate_percentile_threshold: its other arguments
    loop        \* calculate_percentile_threshold: the merged table and the
                \* day-of-year loop

vars ==
    <<kind, pc, fn, arr, thresholds, optimized, result, values, lengths, expanded,
      reference_period, row, args, loop>>

(***************************************************************************)
(* Values                                                                  *)
(***************************************************************************)
NaN == -999

\* Python float comparison: false as soon as one side is NaN.
PyLt(a, b) == a # NaN /\ b # NaN /\ a < b
PyGt(a, b) == a # NaN /\ b # NaN /\ a > b
PyGe(a, b) == a # NaN /\ b # NaN /\ a >= b
PyEq(a, b) == a # NaN /\ b # NaN /\ a = b

Bool(b) == IF b THEN 1 ELSE 0

\* The sequence f as an explicit tuple (a numpy array or pandas Series
\* holds its elements; it is not recomputed when read).
Array(f) == f \o <<>>

\* No calibration is under way.
NoRow == [DATE |-> <<0, 0, 0>>, LEAPYEAR |-> FALSE, DAYOFYEAR |-> 0]
NoArgs == [illtyped |-> "none"]
NoLoop == [rows |-> 0, day_of_year |-> 0, selection |-> {}, missing |-> 0]
NoCalibration ==
    reference_period = <<>> /\ row = NoRow /\ args = NoArgs /\ loop = NoLoop

Outcome(k, v) == [kind |-> k, val |-> v]
NoResult == Outcome("none", 0)
Num(v) == Outcome("num", v)
Missing == Outcome("nan", 0)
Raise(exc) == Outcome(exc, 0)

(***************************************************************************)
(* rle: itertools.groupby opens a group at the first element not yet       *)
(* consumed, whose value is the group's key, and the group takes the       *)
(* following elements as long as each is equal (==) to the key.  Each key  *)
(* is appended to values, each group's size to lengths.                    *)
(***************************************************************************)
\* The index after the group opened at index i.
GroupEnd(s, i) ==
    CHOOSE j \in (i + 1)..(Len(s) + 1) :
        /\ j = Len(s) + 1 \/ ~PyEq(s[i], s[j])
        /\ \A k \in (i + 1)..(j - 1) : PyEq(s[i], s[k])

\* A group iterator read after groupby has advanced is exhausted: every
\* group but the last is counted as empty.
RECURSIVE rleFromStale(_, _, _, _)
rleFromStale(s, i, vals, lens) ==
    IF i > Len(s) THEN <<vals, lens>>
    ELSE LET j == GroupEnd(s, i)
         IN  rleFromStale(s, j, Append(vals, s[i]),
                          Append(lens, IF j > Len(s) THEN j - i ELSE 0))

RECURSIVE rleFrom(_, _, _, _)
rleFrom(s, i, vals, lens) ==
    IF i > Len(s) THEN <<vals, lens>>
    ELSE LET j == GroupEnd(s, i)
         IN  rleFrom(s, j, Append(vals, s[i]), Append(lens, j - i))

rle(s) == rleFrom(s, 1, <<>>, <<>>)

(***************************************************************************)
(* numpy helpers                                                           *)
(***************************************************************************)
\* np.repeat(values, lengths): values[i] repeated lengths[i] times.
RECURSIVE np_repeat(_, _)
np_repeat(vals, lens) ==
    IF vals = <<>> THEN <<>>
    ELSE [k \in 1..Head(lens) |-> Head(vals)] \o np_repeat(Tail(vals), Tail(lens))

\* a.nonzero()[0] / np.where(a)[0]: the 0-based positions of the truthy
\* entries, ascending.
RECURSIVE nonzeroIn(_, _, _)
nonzeroIn(s, lo, hi) ==
    IF lo > hi THEN <<>>
    ELSE IF lo = hi THEN (IF s[lo] # 0 THEN <<lo - 1>> ELSE <<>>)
    ELSE LET mid == (lo + hi) \div 2
         IN  nonzeroIn(s, lo, mid) \o nonzeroIn(s, mid + 1, hi)

nonzero(s) == nonzeroIn(s, 1, Len(s))

\* np.sum over a sequence of numbers.
RECURSIVE np_sumIn(_, _, _)
np_sumIn(s, lo, hi) ==
    IF lo > hi THEN 0
    ELSE IF lo = hi THEN s[lo]
    ELSE LET mid == (lo + hi) \div 2
         IN  np_sumIn(s, lo, mid) + np_sumIn(s, mid + 1, hi)

np_sum(s) == np_sumIn(s, 1, Len(s))

\* np.max over a non-empty sequence.
np_max(s) == CHOOSE m \in {s[i] : i \in 1..Len(s)} : \A i \in 1..Len(s) : s[i] <= m

\* a[idx] for a sequence idx of 0-based positions.
Take(a, idx) == Array([k \in 1..Len(idx) |-> a[idx[k] + 1]])

\* op(arr, num): the element-wise comparison of a series with a number.
Apply(op, a, b) ==
    CASE op = "lt" -> PyLt(a, b)
      [] op = "gt" -> PyGt(a, b)
      [] op = "ge" -> PyGe(a, b)

Compare(op, a, num) == Array([i \in 1..Len(a) |-> Bool(Apply(op, a[i], num))])

\* operator.ge(lengths, n) alone, the run's value forgotten.
GeOnly(vals, lens, n) == Array([i \in 1..Len(vals) |-> Bool(lens[i] >= n)])

\* values & operator.ge(lengths, n), element-wise.
AndGe(vals, lens, n) ==
    Array([i \in 1..Len(vals) |-> Bool(vals[i] # 0 /\ lens[i] >= n)])

(***************************************************************************)
(* is_valid_year_length                                                    *)
(***************************************************************************)
CommonYear == 365
LeapYear == 366

is_valid_year_length(a) == Len(a) \in {CommonYear, LeapYear}

(***************************************************************************)
(* number_of and the count-based indices.  With assert statements active   *)
(* (opt = FALSE) the third assert calls isinstance with a tuple of         *)
(* functions, which raises TypeError before the year-length gate.          *)
(***************************************************************************)
number_of(a, num, op, opt) ==
    IF ~opt THEN Raise("TypeError")
    ELSE IF ~is_valid_year_length(a) THEN Missing
    ELSE Num(np_sum(Compare(op, a, num)))

number_of_fd(tmin, opt) == number_of(tmin, 0, "lt", opt)
number_of_sd(tmax, opt) == number_of(tmax, 25, "gt", opt)
number_of_id(tmax, opt) == number_of(tmax, 0, "lt", opt)
number_of_tn(tmin, opt) == number_of(tmin, 20, "gt", opt)
rr10(prec, opt) == number_of(prec, 10, "ge", opt)
rr20(prec, opt) == number_of(prec, 20, "ge", opt)

(***************************************************************************)
(* Consecutive-run indices.  consecutive_fd and consecutive_sd take        *)
(* np.max of the lengths of the true runs, which raises ValueError when    *)
(* there is none.  consecutive_dd indexes the Python list lengths with the *)
(* tuple nonzero() returns, which raises TypeError.                        *)
(***************************************************************************)
MaxTrueRun(cond) ==
    LET enc == rle(cond)
        sel == Take(enc[2], nonzero(enc[1]))
    IN  IF sel = <<>> THEN Raise("ValueError") ELSE Num(np_max(sel))

consecutive_fd(tmin) ==
    IF ~is_valid_year_length(tmin) THEN Missing
    ELSE MaxTrueRun(Compare("lt", tmin, 0))

consecutive_sd(tmax) ==
    IF ~is_valid_year_length(tmax) THEN Missing
    ELSE MaxTrueRun(Compare("gt", tmax, 25))

consecutive_dd(prec) ==
    IF ~is_valid_year_length(prec) THEN Missing
    ELSE LET enc == rle(Compare("lt", prec, 1))
             idx == nonzero(enc[1])
         IN  Raise("TypeError")

(***************************************************************************)
(* sum_of_hdd                                                              *)
(***************************************************************************)
sum_of_hdd(tmean) ==
    IF ~is_valid_year_length(tmean) THEN Missing
    ELSE Num(np_sum(Array([i \in 1..Len(tmean) |->
                        IF PyLt(tmean[i], 17) THEN 17 - tmean[i] ELSE 0])))

(***************************************************************************)
(* fix_timeseries_for_leapyear.  The series carries the default            *)
(* RangeIndex (as the calibrator returns it), so the label 60 is the       *)
(* position 60: timeseries[:60] is positions 0..59, timeseries[[60]] is    *)
(* position 60, timeseries[61:] is positions 61 to the end.                *)
(***************************************************************************)
DAY_OF_YEAR_29_FEB == 60

fix_timeseries_for_leapyear(ts) ==
    SubSeq(ts, 1, DAY_OF_YEAR_29_FEB)
        \o <<ts[DAY_OF_YEAR_29_FEB + 1], ts[DAY_OF_YEAR_29_FEB + 1]>>
        \o SubSeq(ts, DAY_OF_YEAR_29_FEB + 2, Len(ts))

(***************************************************************************)
(* _number_of_thresholds / number_of_cn                                    *)
(***************************************************************************)
MinSpell == 6

\* any() of an index array: some index is non-zero.
np_any(s) == \E i \in 1..Len(s) : s[i] # 0

number_of_thresholds(data, thr) ==
    IF ~is_valid_year_length(data) THEN Missing
    ELSE IF Len(data) > Len(thr) /\ ~is_valid_year_length(thr)
         \* fix_timeseries_for_leapyear returned np.nan: nan.reset_index
         THEN Raise("AttributeError")
    ELSE LET t == IF Len(data) > Len(thr) THEN fix_timeseries_for_leapyear(thr)
                  ELSE thr
         IN  IF Len(t) # Len(data)
             \* comparison of differently labelled Series
             THEN Raise("ValueError")
             ELSE LET enc == rle(Array([i \in 1..Len(data) |->
                                            Bool(PyLt(data[i], t[i]))]))
                      number_of_vals == nonzero(AndGe(enc[1], enc[2], MinSpell))
                  IN  IF ~np_any(number_of_vals) THEN Missing
                      ELSE Num(np_sum(number_of_vals))

number_of_cn(tmin, thr) == number_of_thresholds(tmin, thr)

(***************************************************************************)
(* growing_season_length.  bool() of the array end: an empty array is      *)
(* False (numpy 1.x, with a DeprecationWarning), a one-element array is    *)
(* its element, a longer one raises ValueError.  With one element the      *)
(* function returns a one-element array.                                   *)
(***************************************************************************)
MinLength == 6
Jday1JulLeap == 183
Jday1JulCommon == 182

\* Positions of the days lying in a run of cond of at least MinLength days.
LongRunDays(cond) ==
    LET enc == rle(cond)
    IN  nonzero(AndGe(np_repeat(enc[1], enc[2]), np_repeat(enc[2], enc[2]), MinLength))

\* end_arr[(end_arr >= jday_1jul).nonzero()]: the boundary day included.
FromJday(end_arr, jday_1jul) ==
    Take(end_arr,
         nonzero(Array([k \in 1..Len(end_arr) |-> Bool(end_arr[k] >= jday_1jul)])))

\* end_arr[(end_arr > jday_1jul).nonzero()]
AfterJday(end_arr, jday_1jul) ==
    Take(end_arr,
         nonzero(Array([k \in 1..Len(end_arr) |-> Bool(end_arr[k] > jday_1jul)])))

growing_season_length(tmean) ==
    IF ~is_valid_year_length(tmean) THEN Missing
    ELSE LET start_arr == LongRunDays(Compare("gt", tmean, 5))
         IN  IF ~(Len(start_arr) > 0) THEN Num(0)
             ELSE LET start == start_arr[1]
                      jday_1jul == IF Len(tmean) = LeapYear THEN Jday1JulLeap
                                   ELSE Jday1JulCommon
                      end_arr == LongRunDays(Compare("lt", tmean, 5))
                  IN  IF ~(Len(end_arr) > 0) THEN Num(0)
                      ELSE LET end == AfterJday(end_arr, jday_1jul)
                           IN  IF Len(end) > 1 THEN Raise("ValueError")
                               ELSE IF Len(end) = 0 \/ end[1] = 0 THEN Num(0)
                               ELSE Outcome("array", end[1] - start + 1)

(***************************************************************************)
(* Arguments.  A daily series is a background value with at most MaxEvents *)
(* spells laid over it: spell k covers the positions at .. at + len - 1    *)
(* with the value val (a later spell overrides an earlier one).            *)
(***************************************************************************)
MaxEvents == 2

Spells(Starts, RunLens, Vals) == [at : Starts, len : RunLens, val : Vals]

SpellSeqs(E) ==
    UNION {{es \in [1..k -> E] : \A i \in 1..(k - 1) : es[i].at < es[i + 1].at} :
           k \in 0..MaxEvents}

RECURSIVE ValueAt(_, _, _, _)
ValueAt(i, bg, es, k) ==
    IF k = 0 THEN bg
    ELSE IF es[k].at < i /\ i <= es[k].at + es[k].len THEN es[k].val
    ELSE ValueAt(i, bg, es, k - 1)

DailySeries(n, bg, es) == Array([i \in 1..n |-> ValueAt(i, bg, es, Len(es))])

Family(Lens, Bgs, Vals, Starts, RunLens) ==
    {DailySeries(n, bg, es) :
        n \in Lens, bg \in Bgs, es \in SpellSeqs(Spells(Starts, RunLens, Vals))}

ConstantProfile(n, c) == Array([i \in 1..n |-> c])

\* The lengths around the two valid ones.
AllLengths == {CommonYear - 1, CommonYear, LeapYear, LeapYear + 1}

(***************************************************************************)
(* The index library: Init draws one daily series of one kind, each action *)
(* is the call of one index function on the series of the kind it takes.   *)
(***************************************************************************)
LibStarts == {0, 49, 200}
LibRunLens == {1, 7}
TminVals == {-1, 0, 21, NaN}
TmaxVals == {-1, 25, 26}
TmeanVals == {4, 5, 6, 17}
PrecVals == {0, 1, 10, 20}

Init ==
    /\ pc = "ready"
    /\ fn = "none"
    /\ optimized \in BOOLEAN
    /\ result = NoResult
    /\ values = <<>>
    /\ lengths = <<>>
    /\ expanded = <<>>
    /\ NoCalibration
    /\ \/ /\ kind = "tmin"
          /\ arr \in Family(AllLengths, TminVals, TminVals, LibStarts, LibRunLens)
          /\ thresholds = ConstantProfile(CommonYear, 0)
       \/ /\ kind = "tmax"
          /\ arr \in Family(AllLengths, TmaxVals, TmaxVals, LibStarts, LibRunLens)
          /\ thresholds = <<>>
       \/ /\ kind = "tmean"
          /\ arr \in Family(AllLengths, TmeanVals, TmeanVals, LibStarts, LibRunLens)
          /\ thresholds = <<>>
       \/ /\ kind = "prec"
          /\ arr \in Family(AllLengths, PrecVals, PrecVals, LibStarts, LibRunLens)
          /\ thresholds = <<>>

Return(name, r) ==
    /\ pc' = "done"
    /\ fn' = name
    /\ result' = r
    /\ UNCHANGED <<kind, arr, thresholds, optimized, values, lengths, expanded,
                   reference_period, row, args, loop>>

Call_number_of_fd ==
    pc = "ready" /\ kind = "tmin" /\ Return("number_of_fd", number_of_fd(arr, optimized))

Call_number_of_sd ==
    pc = "ready" /\ kind = "tmax" /\ Return("number_of_sd", number_of_sd(arr, optimized))

Call_number_of_id ==
    pc = "ready" /\ kind = "tmax" /\ Return("number_of_id", number_of_id(arr, optimized))

Call_number_of_tn ==
    pc = "ready" /\ kind = "tmin" /\ Return("number_of_tn", number_of_tn(arr, optimized))

Call_rr10 ==
    pc = "ready" /\ kind = "prec" /\ Return("rr10", rr10(arr, optimized))

Call_rr20 ==
    pc = "ready" /\ kind = "prec" /\ Return("rr20", rr20(arr, optimized))

Call_consecutive_fd ==
    pc = "ready" /\ kind = "tmin" /\ Return("consecutive_fd", consecutive_fd(arr))

Call_consecutive_sd ==
    pc = "ready" /\ kind = "tmax" /\ Return("consecutive_sd", consecutive_sd(arr))

Call_consecutive_dd ==
    pc = "ready" /\ kind = "prec" /\ Return("consecutive_dd", consecutive_dd(arr))

Call_sum_of_hdd ==
    pc = "ready" /\ kind = "tmean" /\ Return("sum_of_hdd", sum_of_hdd(arr))

Call_number_of_cn ==
    pc = "ready" /\ kind = "tmin" /\ Return("number_of_cn", number_of_cn(arr, thresholds))

Call_growing_season_length ==
    pc = "ready" /\ kind = "tmean"
        /\ Return("growing_season_length", growing_season_length(arr))

Next ==
    \/ Call_number_of_fd
    \/ Call_number_of_sd
    \/ Call_number_of_id
    \/ Call_number_of_tn
    \/ Call_rr10
    \/ Call_rr20
    \/ Call_consecutive_fd
    \/ Call_consecutive_sd
    \/ Call_consecutive_dd
    \/ Call_sum_of_hdd
    \/ Call_number_of_cn
    \/ Call_growing_season_length

Spec == Init /\ [][Next]_vars

(***************************************************************************)
(* Properties of the index library                                         *)
(***************************************************************************)
IndexFunctions ==
    {"number_of_fd", "number_of_sd", "number_of_id", "number_of_tn", "rr10", "rr20",
     "consecutive_fd", "consecutive_sd", "consecutive_dd", "sum_of_hdd",
     "number_of_cn", "growing_season_length"}
CountFunctions ==
    {"number_of_fd", "number_of_sd", "number_of_id", "number_of_tn", "rr10", "rr20"}
RunFunctions == {"consecutive_fd", "consecutive_sd", "consecutive_dd"}

ValidLength == Len(arr) = 365 \/ Len(arr) = 366

\* The condition of index f on the value v of one day, as the index table
\* states it; a missing value satisfies no condition.
Satisfies(f, v) ==
    /\ v # NaN
    /\ CASE f \in {"number_of_fd", "number_of_id", "consecutive_fd"} -> v < 0
         [] f \in {"number_of_sd", "consecutive_sd"} -> v > 25
         [] f = "number_of_tn" -> v > 20
         [] f = "rr10" -> v >= 10
         [] f = "rr20" -> v >= 20
         [] f = "consecutive_dd" -> v < 1

QualifyingDays(f) == {i \in 1..Len(arr) : Satisfies(f, arr[i])}

\* The length of the longest maximal run of consecutive days in D.
RunEnd(D, a) ==
    CHOOSE b \in a..Len(arr) :
        /\ b = Len(arr) \/ (b + 1) \notin D
        /\ \A k \in a..b : k \in D

LongestRun(D) ==
    LET runs == {RunEnd(D, a) - a + 1 : a \in {i \in D : i = 1 \/ (i - 1) \notin D}}
    IN  CHOOSE m \in runs : \A r \in runs : r <= m

(* C1: every index function, called on a series whose length is neither
   365 nor 366, returns the missing-sentinel (NaN) and raises no error. *)
C1_InvalidLengthIsMissing ==
    (pc = "done" /\ fn \in IndexFunctions /\ ~ValidLength) => result = Missing

(* C2: every count-based index, called on a series of length 365 or 366,
   returns exactly the number of positions whose value satisfies the
   index's condition. *)
C2_CountIsExact ==
    (pc = "done" /\ fn \in CountFunctions /\ ValidLength) =>
        result = Num(Cardinality(QualifyingDays(fn)))

(* C3: every consecutive-run index, called on a series of length 365 or
   366 in which no day satisfies the condition, returns 0 and raises no
   error. *)
C3_AllFalseYearIsZero ==
    (pc = "done" /\ fn \in RunFunctions /\ ValidLength /\ QualifyingDays(fn) = {}) =>
        result = Num(0)

(* C4: every consecutive-run index, called on a series of length 365 or
   366 with at least one qualifying day, returns the length of the longest
   maximal run of consecutive qualifying days. *)
C4_LongestRun ==
    (pc = "done" /\ fn \in RunFunctions /\ ValidLength /\ QualifyingDays(fn) # {}) =>
        result = Num(LongestRun(QualifyingDays(fn)))

(***************************************************************************)
(* growing_season_length alone, on mean-temperature series whose warm and  *)
(* cold spells lie around the end-search boundary.                         *)
(***************************************************************************)
YearLengths == {CommonYear, LeapYear}
GslStarts == {0, 100, Jday1JulCommon - 5, Jday1JulCommon - 4, 300}
GslRunLens == {MinLength - 1, MinLength, MinLength + 1}

InitGsl ==
    /\ kind = "tmean"
    /\ pc = "ready"
    /\ fn = "none"
    /\ arr \in Family(YearLengths, {4, 5, 6}, {4, 6}, GslStarts, GslRunLens)
    /\ thresholds = <<>>
    /\ optimized = FALSE
    /\ result = NoResult
    /\ values = <<>>
    /\ lengths = <<>>
    /\ expanded = <<>>
    /\ NoCalibration

NextGsl == Call_growing_season_length

SpecGsl == InitGsl /\ [][NextGsl]_vars

\* a..a+5 (indices) is a window of six days all above, or all below, 5.
WarmWindow(a) == a >= 1 /\ a + 5 <= Len(arr) /\ \A k \in a..(a + 5) : arr[k] > 5
ColdWindow(a) == a >= 1 /\ a + 5 <= Len(arr) /\ \A k \in a..(a + 5) : arr[k] < 5

Boundary == IF Len(arr) = 366 THEN 183 ELSE 182

\* Some day lies in a run of at least six days above 5.
HasStart == \E a \in 1..(Len(arr) - 5) : WarmWindow(a)

\* Some day at a position strictly after the boundary lies in a run of at
\* least six days below 5: a cold window whose last position, a + 4, is
\* after the boundary.
HasEnd == \E a \in (Boundary - 3)..(Len(arr) - 5) : ColdWindow(a)

\* The position of the first day lying in a run of six warm days.
StartPosition ==
    LET a == CHOOSE a \in 1..(Len(arr) - 5) :
                 WarmWindow(a) /\ \A b \in 1..(a - 1) : ~WarmWindow(b)
    IN  a - 1

\* The position of the first day after the boundary lying in a run of six
\* cold days.
EndPosition ==
    LET a == CHOOSE a \in (Boundary - 3)..(Len(arr) - 5) :
                 ColdWindow(a) /\ \A b \in (Boundary - 3)..(a - 1) : ~ColdWindow(b)
    IN  IF a - 1 > Boundary THEN a - 1 ELSE Boundary + 1

GslDone == pc = "done" /\ fn = "growing_season_length" /\ ValidLength

(* C6: growing_season_length on a valid-length series with a qualifying
   start and at least one qualifying end position returns end - start + 1,
   the end being the first candidate, whether one or many positions are
   candidates. *)
C6_EndMinusStart ==
    (GslDone /\ HasStart /\ HasEnd) =>
        /\ result.kind \in {"num", "array"}
        /\ result.val = EndPosition - StartPosition + 1

(* C7: growing_season_length on a valid-length series returns 0, raising
   nothing, whenever no day lies in a run of >= 6 days above 5, and
   whenever a start exists but no day strictly after the boundary lies in a
   run of >= 6 days below 5, cold runs before the boundary included. *)
C7_NoSeasonIsZero ==
    (GslDone /\ (~HasStart \/ ~HasEnd)) => result = Num(0)

\* A start exists, a cold run of six days ends at or before the boundary,
\* none reaches beyond it, and the call returned 0.
C7_Witness ==
    /\ GslDone /\ HasStart /\ ~HasEnd
    /\ \E a \in 1..(Boundary - 4) : ColdWindow(a)
    /\ result = Num(0)

(* C14: whenever growing_season_length returns a non-zero numeric result
   for a valid-length series, the end position is not earlier than the
   start position, so the result is at least 1, also when the first warm
   run of >= 6 days begins only after a cold run that follows 1 July. *)
C14_SeasonIsPositive ==
    (GslDone /\ result.kind \in {"num", "array"} /\ result.val # 0) =>
        result.val >= 1

(***************************************************************************)
(* number_of_cn and fix_timeseries_for_leapyear: a minimum-temperature     *)
(* series and a threshold profile that steps from 0 to 10 around the       *)
(* position DAY_OF_YEAR_29_FEB.                                            *)
(***************************************************************************)
CnStarts == {0, DAY_OF_YEAR_29_FEB - 1, 100}
CnRunLens == {MinSpell - 1, MinSpell}

StepProfile(n, k, lo, hi) == Array([i \in 1..n |-> IF i <= k THEN lo ELSE hi])

ThresholdProfiles ==
    {StepProfile(n, k, 0, 10) :
        n \in {CommonYear - 1, CommonYear, LeapYear},
        k \in {0, DAY_OF_YEAR_29_FEB - 1, DAY_OF_YEAR_29_FEB, DAY_OF_YEAR_29_FEB + 1,
               LeapYear}}

InitCn ==
    /\ kind = "tmin"
    /\ pc = "ready"
    /\ fn = "none"
    /\ arr \in Family(YearLengths, {-5, 5, 15}, {-5, 15}, CnStarts, CnRunLens)
    /\ thresholds \in ThresholdProfiles
    /\ optimized = FALSE
    /\ result = NoResult
    /\ values = <<>>
    /\ lengths = <<>>
    /\ expanded = <<>>
    /\ NoCalibration

Call_fix_timeseries_for_leapyear ==
    /\ pc = "ready"
    /\ pc' = "done"
    /\ fn' = "fix_timeseries_for_leapyear"
    /\ IF ~is_valid_year_length(thresholds)
       THEN result' = Missing /\ expanded' = <<>>
       ELSE result' = Outcome("series", 0)
            /\ expanded' = fix_timeseries_for_leapyear(thresholds)
    /\ UNCHANGED <<kind, arr, thresholds, optimized, values, lengths,
                   reference_period, row, args, loop>>

NextCn == Call_number_of_cn \/ Call_fix_timeseries_for_leapyear

SpecCn == InitCn /\ [][NextCn]_vars

\* The profile has the length of the series, or is a 365-entry profile for
\* a 366-day series.
MatchingProfile ==
    \/ Len(thresholds) = Len(arr)
    \/ Len(arr) = 366 /\ Len(thresholds) = 365

\* below[i] = 1 when day i is below its threshold in the profile t.
BelowSeries(t) == Array([i \in 1..Len(arr) |-> Bool(PyLt(arr[i], t[i]))])

\* The indices at which a run of at least six days below the threshold
\* begins.
SpellStarts(below) ==
    {i \in 1..(Len(below) - 5) :
        /\ i = 1 \/ below[i - 1] = 0
        /\ \A k \in i..(i + 5) : below[k] = 1}

\* How many runs precede the run of day i: the changes of value up to i.
RunsBefore(below, i) == Cardinality({j \in 2..i : below[j] # below[j - 1]})

RECURSIVE SumOver(_, _, _)
SumOver(below, S, byOrdinal) ==
    IF S = {} THEN 0
    ELSE LET i == CHOOSE x \in S : TRUE
         IN  (IF byOrdinal THEN RunsBefore(below, i) ELSE i - 1)
                 + SumOver(below, S \ {i}, byOrdinal)

AlignedProfile ==
    IF Len(thresholds) = Len(arr) THEN thresholds
    ELSE fix_timeseries_for_leapyear(thresholds)

OrdinalSum == LET b == BelowSeries(AlignedProfile) IN SumOver(b, SpellStarts(b), TRUE)
PositionSum == LET b == BelowSeries(AlignedProfile) IN SumOver(b, SpellStarts(b), FALSE)
LaterSpell ==
    LET b == BelowSeries(AlignedProfile) IN \E i \in SpellStarts(b) : i > 1

CnDone == pc = "done" /\ fn = "number_of_cn" /\ ValidLength /\ MatchingProfile

(* C8 as stated: number_of_cn returns the sum of the day positions at which
   the true runs of length >= 6 begin (here on the inputs with such a run
   beginning after the first day of the year). *)
C8_SumOfDayPositions ==
    (CnDone /\ LaterSpell) => result = Num(PositionSum)

(* C8 as amended: number_of_cn returns the sum of the ordinal indices,
   within the run encoding, of the true runs of length >= 6: a number
   whenever that sum is not zero, and never another number. *)
C8_SumOfRunOrdinals ==
    CnDone =>
        /\ OrdinalSum > 0 => result = Num(OrdinalSum)
        /\ result.kind = "num" => result.val = OrdinalSum

\* Two spells were found in a leap year, and the sum of their ordinal
\* indices differs from the sum of their day positions.
C8_Witness ==
    /\ CnDone /\ result.kind = "num"
    /\ Len(arr) = 366 /\ Len(thresholds) = 365
    /\ result.val = OrdinalSum
    /\ result.val # PositionSum
    /\ Cardinality(SpellStarts(BelowSeries(AlignedProfile))) >= 2

(* C9: fix_timeseries_for_leapyear on a 365-entry profile p returns a
   366-entry r with r[i] = p[i] for i in 0..58, r[59] = r[60] = p[59] and
   r[i] = p[i-1] for i in 61..365 (0-based; index i is position i + 1
   here). *)
C9_LeapExpansion ==
    (pc = "done" /\ fn = "fix_timeseries_for_leapyear" /\ Len(thresholds) = 365) =>
        /\ Len(expanded) = 366
        /\ \A i \in 0..58 : expanded[i + 1] = thresholds[i + 1]
        /\ expanded[59 + 1] = thresholds[59 + 1]
        /\ expanded[60 + 1] = thresholds[59 + 1]
        /\ \A i \in 61..365 : expanded[i + 1] = thresholds[(i - 1) + 1]

(* C13: for a valid-length series and a matching threshold profile,
   number_of_cn returns a number whenever at least one true run of length
   >= 6 exists, the run beginning on the first day of the year included,
   and the missing value only when no such run exists. *)
C13_NumericWhenSpellExists ==
    CnDone =>
        /\ SpellStarts(BelowSeries(AlignedProfile)) # {} => result.kind = "num"
        /\ SpellStarts(BelowSeries(AlignedProfile)) = {} => result = Missing

(***************************************************************************)
(* Specification of the encoder alone: any sequence of at most MaxLen      *)
(* elements over RleAlphabet.                                              *)
(***************************************************************************)
MaxLen == 5
RleAlphabet == {0, 1, NaN}


RleInputs == UNION {[1..n -> RleAlphabet] : n \in 0..MaxLen}

InitRle ==
    /\ kind = "seq"
    /\ pc = "ready"
    /\ fn = "none"
    /\ arr \in RleInputs
    /\ thresholds = <<>>
    /\ optimized = FALSE
    /\ result = NoResult
    /\ values = <<>>
    /\ lengths = <<>>
    /\ expanded = <<>>
    /\ NoCalibration

Call_rle ==
    /\ pc = "ready"
    /\ pc' = "done"
    /\ fn' = "rle"
    /\ values' = rle(arr)[1]
    /\ lengths' = rle(arr)[2]
    /\ UNCHANGED <<kind, arr, thresholds, optimized, result, expanded,
                   reference_period, row, args, loop>>

NextRle == Call_rle

SpecRle == InitRle /\ [][NextRle]_vars

\* Decoding: each values[i] repeated lengths[i] times, in order.
RECURSIVE Decode(_, _)
Decode(vals, lens) ==
    IF vals = <<>> THEN <<>>
    ELSE [k \in 1..Head(lens) |-> Head(vals)] \o Decode(Tail(vals), Tail(lens))

(* C5: for any finite sequence s, rle(s) returns lists (values, lengths) of
   equal size; repeating each values[i] lengths[i] times and concatenating
   in order reproduces s, and the lengths sum to the length of s. *)
C5_RoundTrip ==
    (pc = "done" /\ fn = "rle") =>
        /\ Len(values) = Len(lengths)
        /\ Decode(values, lengths) = arr
        /\ np_sum(lengths) = Len(arr)

\* A sequence with a repeated value, a change of value and a NaN was encoded.
C5_Witness ==
    /\ pc = "done" /\ fn = "rle"
    /\ Len(arr) >= 4
    /\ Len(values) >= 2
    /\ Len(values) < Len(arr)
    /\ \E i \in 1..Len(arr) : arr[i] = NaN

(***************************************************************************)
(* calculate_percentile_threshold: the table date_operations.  One row per *)
(* date of pd.date_range(start_date, end_date), from 1 January of the      *)
(* first year to 31 December of the last; LEAPYEAR is calendar.isleap of   *)
(* the year, DAYOFYEAR is dt.dayofyear, decremented in the rows where      *)
(* LEAPYEAR holds and DAYOFYEAR >= DAY_OF_YEAR_29_FEB.                     *)
(***************************************************************************)
ReferenceYears == 30

isleap(year) == year % 4 = 0 /\ (year % 100 # 0 \/ year % 400 = 0)

DaysInMonth(year, month) ==
    IF month = 2 THEN (IF isleap(year) THEN 29 ELSE 28)
    ELSE IF month \in {4, 6, 9, 11} THEN 30 ELSE 31

RECURSIVE DaysBefore(_, _)
DaysBefore(year, month) ==
    IF month = 1 THEN 0
    ELSE DaysInMonth(year, month - 1) + DaysBefore(year, month - 1)

dayofyear(date) == DaysBefore(date[1], date[2]) + date[3]

NextDate(date) ==
    IF date[3] < DaysInMonth(date[1], date[2]) THEN <<date[1], date[2], date[3] + 1>>
    ELSE IF date[2] < 12 THEN <<date[1], date[2] + 1, 1>>
    ELSE <<date[1] + 1, 1, 1>>

\* The decrement applied from the day after 29 February on.
FoldAfter29Feb(leapyear, doy) ==
    IF leapyear /\ doy > DAY_OF_YEAR_29_FEB THEN doy - 1 ELSE doy

\* date_operations.loc[LEAPYEAR & (DAYOFYEAR >= DAY_OF_YEAR_29_FEB), "DAYOFYEAR"] -= 1
Fold(leapyear, doy) ==
    IF leapyear /\ doy >= DAY_OF_YEAR_29_FEB THEN doy - 1 ELSE doy

Row(date) ==
    [DATE |-> date,
     LEAPYEAR |-> isleap(date[1]),
     DAYOFYEAR |-> Fold(isleap(date[1]), dayofyear(date))]

\* Reference periods holding 1900 (no leap year), 2000 (a leap year) and
\* neither.
FirstYears == {1871, 1951, 1971}

InitCal ==
    /\ kind = "dates"
    /\ pc = "rows"
    /\ fn = "calculate_percentile_threshold"
    /\ arr = <<>>
    /\ thresholds = <<>>
    /\ optimized = FALSE
    /\ result = NoResult
    /\ values = <<>>
    /\ lengths = <<>>
    /\ expanded = <<>>
    /\ \E first \in FirstYears : reference_period = <<first, first + ReferenceYears - 1>>
    /\ row = Row(<<reference_period[1], 1, 1>>)
    /\ args = NoArgs
    /\ loop = NoLoop

AddRow ==
    /\ pc = "rows"
    /\ row.DATE # <<reference_period[2], 12, 31>>
    /\ row' = Row(NextDate(row.DATE))
    /\ UNCHANGED <<kind, pc, fn, arr, thresholds, optimized, result, values, lengths,
                   expanded, reference_period, args, loop>>

NextCal == AddRow

SpecCal == InitCal /\ [][NextCal]_vars

\* Day of the year of (month, day) in a year of 365 days.
CommonMonthDays == <<31, 28, 31, 30, 31, 30, 31, 31, 30, 31, 30, 31>>

RECURSIVE CommonDayOfYear(_, _)
CommonDayOfYear(month, day) ==
    IF month = 1 THEN day
    ELSE CommonMonthDays[month - 1] + CommonDayOfYear(month - 1, day)

\* The leap years from 1871 to 2000: every fourth year but 1900.
LeapYearsOfThePeriods == {1872 + 4 * k : k \in 0..32} \ {1900}

(* C10: the leap-folded day-of-year of every date of the reference period
   lies in 1..365; 29 February receives 59, the label of 28 February; every
   other date, in a leap year or not, receives the day-of-year it has in a
   year of 365 days (31 December receives 365). *)
C10_LeapFoldedDayOfYear ==
    (pc = "rows") =>
        /\ row.DAYOFYEAR \in 1..365
        /\ row.LEAPYEAR = (row.DATE[1] \in LeapYearsOfThePeriods)
        /\ IF row.DATE[2] = 2 /\ row.DATE[3] = 29
           THEN row.LEAPYEAR /\ row.DAYOFYEAR = 59
           ELSE row.DAYOFYEAR = CommonDayOfYear(row.DATE[2], row.DATE[3])
        /\ (row.DATE[2] = 12 /\ row.DATE[3] = 31) => row.DAYOFYEAR = 365

\* The rows of a leap year up to its 31 December, labelled 365, were built.
C10_Witness ==
    /\ pc = "rows"
    /\ row.DATE = <<reference_period[1] + 1, 12, 31>>
    /\ row.LEAPYEAR
    /\ row.DAYOFYEAR = 365

(***************************************************************************)
(* calculate_percentile_threshold, the whole call: the validation of the   *)
(* arguments, the merge of the observations onto the extended date range,  *)
(* the rolling mean, and the loop over the days of the year.               *)
(*                                                                         *)
(*  - percentile and min_percentage are written in hundredths.             *)
(*  - A date is written as its number of days after start_date, 1 January  *)
(*    of reference_period[0].  Row i of date_operations (label i) is the   *)
(*    date i.                                                              *)
(*  - The frame timeseries holds one observation per day from `before`     *)
(*    days before start_date to `after` days after end_date, but for the   *)
(*    dates in `gaps`.                                                     *)
(*  - A smoothed value is written as the set of the dates it averages, and *)
(*    np.nan as the empty set.                                             *)
(***************************************************************************)
YearLength(year) == IF isleap(year) THEN LeapYear ELSE CommonYear

\* The date of 1 January of year.
RECURSIVE YearStart(_)
YearStart(year) ==
    IF year <= reference_period[1] THEN 0
    ELSE YearStart(year - 1) + YearLength(year - 1)

\* len(date_operations): the days from start_date to end_date.
NumberOfDates == YearStart(reference_period[2] + 1)

\* The labels of the rows of date_operations whose DAYOFYEAR is d.
Labels(d) ==
    {YearStart(year) + doy - 1 :
        <<year, doy>> \in
            {yd \in (reference_period[1]..reference_period[2]) \X {d, d + 1} :
                /\ yd[2] <= YearLength(yd[1])
                /\ Fold(isleap(yd[1]), yd[2]) = d}}

\* int(window / 2)
HalfWindow == args.window \div 2

\* pd.merge(pd.DataFrame({"DATE": daterange_extended}), timeseries): an
\* inner join on DATE, in the order of daterange_extended, with a new index
\* 0, 1, ...: the observed dates of the extended range.
FirstMerged ==
    IF -HalfWindow > -args.timeseries.before THEN -HalfWindow
    ELSE -args.timeseries.before

LastMerged ==
    IF NumberOfDates - 1 + HalfWindow < NumberOfDates - 1 + args.timeseries.after
    THEN NumberOfDates - 1 + HalfWindow
    ELSE NumberOfDates - 1 + args.timeseries.after

MergedRows ==
    LastMerged - FirstMerged + 1
        - Cardinality({g \in args.timeseries.gaps : FirstMerged <= g /\ g <= LastMerged})

\* The date held by the row labelled j of the merged frame.
RowDate(j) ==
    CHOOSE o \in {FirstMerged + j + k : k \in 0..Cardinality(args.timeseries.gaps)} :
        /\ o \notin args.timeseries.gaps
        /\ o - FirstMerged
             - Cardinality({g \in args.timeseries.gaps : FirstMerged <= g /\ g < o}) = j

\* rolling(window, center=True).mean() at the row labelled j: the mean of
\* the rows j - window // 2 .. j + (window - 1) // 2, np.nan when one of
\* them does not exist.
Smoothed(j) ==
    LET first == j - args.window \div 2
        last == j + (args.window - 1) \div 2
    IN  IF first < 0 \/ last > loop.rows - 1 THEN {}
        ELSE {RowDate(k) : k \in first..last}

\* timeseries.loc[date_operations["DAYOFYEAR"].isin([day_of_year]), "VALUES"]
\* for a frame whose labels all are labels of date_operations: the rows of
\* the merged frame that carry a label of Labels(day_of_year).
Selection(day_of_year) ==
    {[DATE |-> RowDate(i), VALUES |-> Smoothed(i)] :
        i \in {l \in Labels(day_of_year) : l < loop.rows}}

\* The checks of the arguments, in the order of the code; NoResult when
\* all of them pass.
Validation ==
    IF args.illtyped = "timeseries" THEN Raise("TypeError")
    ELSE IF args.illtyped = "percentile" THEN Raise("TypeError")
    ELSE IF args.illtyped = "reference_period" THEN Raise("TypeError")
    ELSE IF ~(Len(reference_period) = 2) THEN Raise("ValueError")
    ELSE IF args.illtyped = "years" THEN Raise("TypeError")
    ELSE IF ~(reference_period[2] - reference_period[1] + 1 = ReferenceYears)
         THEN Raise("ValueError")
    ELSE IF args.illtyped = "window" THEN Raise("TypeError")
    ELSE IF ~(args.window > 0) THEN Raise("ValueError")
    ELSE IF args.illtyped = "min_percentage" THEN Raise("TypeError")
    ELSE IF ~(0 <= args.min_percentage /\ args.min_percentage <= 100)
         THEN Raise("ValueError")
    ELSE NoResult

IllTyped ==
    {"none", "timeseries", "percentile", "reference_period", "years", "window",
     "min_percentage"}
Periods ==
    {<<first, first + ReferenceYears - 1 + k>> : first \in {1951, 1971}, k \in {-1, 0, 1}}
        \cup {<<1971, 2000, 2000>>}
Percentiles == {-10, 0, 100, 110}
Windows == {-1, 0, 1, 2, 3}
MinPercentages == {-10, 0, 100, 110}
Frames ==
    {[before |-> 3, after |-> 3, gaps |-> {}],
     [before |-> 0, after |-> 0, gaps |-> {}],
     [before |-> 1, after |-> -1, gaps |-> {}],
     [before |-> 0, after |-> 0, gaps |-> {100}]}

InitThr ==
    /\ kind = "frame"
    /\ pc = "called"
    /\ fn = "calculate_percentile_threshold"
    /\ arr = <<>>
    /\ thresholds = <<>>
    /\ optimized = FALSE
    /\ result = NoResult
    /\ values = <<>>
    /\ lengths = <<>>
    /\ expanded = <<>>
    /\ reference_period \in Periods
    /\ row = NoRow
    /\ args \in [illtyped : IllTyped, percentile : Percentiles, window : Windows,
                 min_percentage : MinPercentages, timeseries : Frames]
    /\ loop = NoLoop

Validate ==
    /\ pc = "called"
    /\ IF Validation = NoResult
       THEN pc' = "merge" /\ result' = result
       ELSE pc' = "done" /\ result' = Validation
    /\ UNCHANGED <<kind, fn, arr, thresholds, optimized, values, lengths, expanded,
                   reference_period, row, args, loop>>

Merge ==
    /\ pc = "merge"
    /\ pc' = "select"
    /\ loop' = [rows |-> MergedRows, day_of_year |-> 1, selection |-> {}, missing |-> 0]
    /\ UNCHANGED <<kind, fn, arr, thresholds, optimized, result, values, lengths,
                   expanded, reference_period, row, args>>

\* One round of the loop over days_of_year.
Select ==
    /\ pc = "select"
    /\ loop.day_of_year <= CommonYear
    /\ IF loop.rows > NumberOfDates
       \* a label of the frame is no label of the boolean indexer
       THEN pc' = "done" /\ result' = Raise("IndexingError") /\ loop' = loop
       ELSE LET selection_of_timeseries == Selection(loop.day_of_year)
                notna == Cardinality({e \in selection_of_timeseries : e.VALUES # {}})
                size == Cardinality(selection_of_timeseries)
            IN  IF notna * 100 < args.min_percentage * size
                THEN /\ pc' = pc /\ result' = result
                     /\ loop' = [loop EXCEPT !.day_of_year = @ + 1,
                                             !.selection = selection_of_timeseries,
                                             !.missing = @ + 1]
                ELSE IF ~(0 <= args.percentile /\ args.percentile <= 100)
                \* quantile([percentile]) rejects the percentile
                THEN /\ pc' = "done" /\ result' = Raise("ValueError")
                     /\ loop' = [loop EXCEPT !.selection = selection_of_timeseries]
                ELSE /\ pc' = pc /\ result' = result
                     /\ loop' = [loop EXCEPT !.day_of_year = @ + 1,
                                             !.selection = selection_of_timeseries]
    /\ UNCHANGED <<kind, fn, arr, thresholds, optimized, values, lengths, expanded,
                   reference_period, row, args>>

ReturnThresholds ==
    /\ pc = "select"
    /\ loop.day_of_year > CommonYear
    /\ pc' = "done"
    /\ result' = Outcome("series", CommonYear)
    /\ UNCHANGED <<kind, fn, arr, thresholds, optimized, values, lengths, expanded,
                   reference_period, row, args, loop>>

NextThr == Validate \/ Merge \/ Select \/ ReturnThresholds

SpecThr == InitThr /\ [][NextThr]_vars

\* An argument breaks the contract of its value.
ContractViolated ==
    \/ reference_period[2] - reference_period[1] + 1 # 30
    \/ args.window <= 0
    \/ args.min_percentage < 0 \/ args.min_percentage > 100
    \/ args.percentile < 0 \/ args.percentile > 100

WellTyped == args.illtyped = "none" /\ Len(reference_period) = 2

(* C12: calculate_percentile_threshold raises an error before any
   computation (date range, merge, smoothing, quantile) for each contract
   violation: a reference period with end - start + 1 # 30, a window <= 0,
   a min_percentage outside [0, 1], a percentile outside [0, 1]. *)
C12_EagerValidation ==
    (fn = "calculate_percentile_threshold" /\ kind = "frame" /\ WellTyped
        /\ ContractViolated) =>
        /\ pc \in {"called", "done"}
        /\ pc = "done" =>
              /\ result.kind \in {"ValueError", "TypeError"}
              /\ loop = NoLoop

\* The frame holds an observation for the date o.
Observed(o) ==
    /\ -args.timeseries.before <= o
    /\ o <= NumberOfDates - 1 + args.timeseries.after
    /\ o \notin args.timeseries.gaps

\* The smoothed value of the date o on the calendar: the mean over the
\* window of dates centred on o, missing when one of them has no
\* observation.
SmoothedOfDate(o) ==
    LET dates == (o - args.window \div 2)..(o + (args.window - 1) \div 2)
    IN  IF \A x \in dates : Observed(x) THEN dates ELSE {}

\* One entry for every date of the reference period whose leap-folded
\* day-of-year is d.
EntriesOfDay(d) == {[DATE |-> o, VALUES |-> SmoothedOfDate(o)] : o \in Labels(d)}

(* C11: in calculate_percentile_threshold, for every window >= 1 and every
   day-of-year d in 1..365, the values aggregated for d are exactly the
   smoothed values of the dates of the reference period whose leap-folded
   day-of-year is d, a date with no observation counting as a missing
   entry; the extension by window/2 days does not shift the selection (and
   the selection raises nothing). *)
C11_SelectionByFoldedDay ==
    (kind = "frame" /\ fn = "calculate_percentile_threshold") =>
        /\ result.kind # "IndexingError"
        /\ (pc = "select" /\ loop.day_of_year >= 2) =>
              loop.selection = EntriesOfDay(loop.day_of_year - 1)

====
